---------------------------- MODULE Spec2Model ----------------------------
(***************************************************************************)
(* The QoS traffic classifier and the per-class packet queue of the border *)
(* router: the rule index built by RulesToMap, the two classifiers         *)
(* (RegularClassRule with the rule cache, CachelessClassRule without),     *)
(* the ClassRuleCache and the ChannelPacketQueue.                          *)
(*                                                                         *)
(* A rule reference (a pointer to an InternalClassRule) is the position    *)
(* of the rule in                                                          *)
(* RulesList (the code takes &crs[k]); emptyRule and the nil pointer are   *)
(* two references outside 1..Len(RulesList).  A nil slice and an empty     *)
(* slice are both the empty sequence (the code only takes len() of them    *)
(* and compares with nil to skip work).  The scratch slice extensions is   *)
(* kept as a bag of its elements: the code appends to it and scans it for  *)
(* the existence of an element, it never indexes it by position.           *)
(***************************************************************************)
EXTENDS Integers, Sequences, FiniteSets, Bags, TLC

VARIABLES
    Rules,      \* config.Rules: the MapRules built by RulesToMap
    CrCache,    \* config.Rules.CrCache: cacheEntry -> rule reference
    rc,         \* the RegularClassRule instance (extensions and masks)
    cl,         \* the CachelessClassRule instance (extensions and masks)
    ret,        \* the last call of RegularClassRule.GetRuleForPacket and its result
    full,       \* the last call of CachelessClassRule.GetRuleForPacket and its result
    calls,      \* number of packets classified so far
    pktQue,     \* pq.pktQue of either queue: MaxLength and Profile
    queue,      \* ChannelPacketQueue.queue: the buffered channel's contents
    bufQueue,   \* PacketBufQueue.bufQueue: the readable entries of the ring
    workers,    \* per worker: where it is between CheckAction and Enqueue
    popped,     \* what the last Pop returned
    multi,      \* the PopMultiple call of the consumer: receives left, packets got
    fifo,       \* history: packets in the order their Enqueue returned / were popped
    sent,       \* number of packets handed to Enqueue so far
    callers,    \* per goroutine calling the cache: its running Get or Put
    cacheLog,   \* history: the Stores in the order they took effect, calls made
    extRule,    \* the conf.ExternalClassRule being loaded
    conv        \* what ConvClassRuleToInternal returned for extRule

vars == <<Rules, CrCache, rc, cl, ret, full, calls,
          pktQue, queue, bufQueue, workers, popped, multi, fifo, sent,
          callers, cacheLog, extRule, conv>>

classVars == <<Rules, CrCache, rc, cl, ret, full, calls, callers, cacheLog, extRule, conv>>
queueVars == <<pktQue, queue, bufQueue, workers, popped, multi, fifo, sent>>

---------------------------------------------------------------------------
(* matchMode *)
EXACT == 0
ISDONLY == 1
ASONLY == 2
RANGE == 3
ANY == 4
INTF == 5

(* rule references that are not positions of RulesList *)
emptyRule == 0
NilRule == -1

(* len of the matches array of intersectListsRules, of the initial scratch *)
MatchesLen == 10
ScratchLen == 255

ZeroIA == [I |-> 0, A |-> 0]
IAOf(i, a) == [I |-> i, A |-> a]

(* the zero value of common.ExtnType *)
ZeroExtn == [Class |-> 0, Type |-> 0]

(* uint64(x) of a signed integer x: x itself for x >= 0 and 2^64 + x for   *)
(* x < 0.  A uint64 is written as its four digits of base 65536, the most *)
(* significant first: <<0, 0, 0, 1>> is 1 and <<65535, 65535, 65535,      *)
(* 65535>> is 18446744073709551615.  x is an integer of 32 bits.          *)
Uint64(x) ==
    IF x >= 0
    THEN <<0, 0, x \div 65536, x % 65536>>
    ELSE <<65535, 65535, 32768 + (((x + 2147483647) + 1) \div 65536),
           ((x + 2147483647) + 1) % 65536>>

(* matchRule values as getMatchRuleTypeFromRule builds them; intf is a     *)
(* uint64, 0 when it is not set                                            *)
MatchIA(mode, ia) ==
    [IA |-> ia, lowLim |-> ZeroIA, upLim |-> ZeroIA, intf |-> Uint64(0), matchMode |-> mode]

MatchRange(lo, hi) ==
    [IA |-> ZeroIA, lowLim |-> lo, upLim |-> hi, intf |-> Uint64(0), matchMode |-> RANGE]

(* case INTF: matchRule{intf: uint64(intf), ...} for the int64 n of ParseInt *)
MatchIntf(n) ==
    [IA |-> ZeroIA, lowLim |-> ZeroIA, upLim |-> ZeroIA, intf |-> Uint64(n), matchMode |-> INTF]

ZeroMatchRule == MatchIA(EXACT, ZeroIA)

InternalClassRule(name, prio, src, dst, l4, qn) ==
    [Name |-> name, Priority |-> prio, SourceAs |-> src, DestinationAs |-> dst,
     L4Type |-> l4, QueueNumber |-> qn]

ProtocolMatchType(proto, ext) == [baseProtocol |-> proto, extension |-> ext]

emptyRuleValue ==
    InternalClassRule("default", 0, ZeroMatchRule, ZeroMatchRule, <<>>, 0)

(* a rule pointer dereferenced *)
Deref(R, ref) == IF ref = emptyRule THEN emptyRuleValue ELSE R.RulesList[ref]

---------------------------------------------------------------------------
(* Go maps of slices: a missing key reads as the nil slice *)
Lookup(m, k) == IF k \in DOMAIN m THEN m[k] ELSE <<>>

(* m[k] = append(m[k], r) *)
MapAppend(m, k, r) ==
    [x \in (DOMAIN m) \cup {k} |-> IF x = k THEN Append(Lookup(m, k), r) ELSE m[x]]

EmptyMap == [x \in {} |-> <<>>]

(* uint16(x): the width of the counter i and of the limits of the outer loop *)
Uint16(x) == x % 65536

RECURSIVE RangeLoopA(_, _, _, _, _)
RangeLoopA(m, i, j, upLimA, r) ==
    IF j <= upLimA
    THEN RangeLoopA(MapAppend(m, IAOf(i, j), r), i, j + 1, upLimA, r)
    ELSE m

RECURSIVE RangeLoopI(_, _, _, _, _, _)
RangeLoopI(m, i, upLimI, lowLimA, upLimA, r) ==
    IF i <= upLimI
    THEN RangeLoopI(RangeLoopA(m, i, lowLimA, upLimA, r), Uint16(i + 1), upLimI,
                    lowLimA, upLimA, r)
    ELSE m

(* the for i, for j loops of the RANGE cases *)
AppendRange(m, mr, r) ==
    RangeLoopI(m, Uint16(mr.lowLim.I), Uint16(mr.upLim.I), mr.lowLim.A, mr.upLim.A, r)

(* i <= upLimI holds of every uint16 i when upLimI is the largest uint16, *)
(* and i++ wraps from it to 0: the outer loop is never left                *)
RangeNeverEnds(mr) ==
    mr.matchMode = RANGE /\ Uint16(mr.upLim.I) = Uint16(-1)

EmptyMapRules(crs) ==
    [RulesList |-> crs, diverges |-> FALSE,
     SourceRules |-> EmptyMap, DestinationRules |-> EmptyMap,
     SourceAnyDestinationRules |-> EmptyMap, DestinationAnySourceRules |-> EmptyMap,
     ASOnlySourceRules |-> EmptyMap, ASOnlyDestRules |-> EmptyMap,
     ISDOnlySourceRules |-> EmptyMap, ISDOnlyDestRules |-> EmptyMap,
     L4OnlyRules |-> <<>>, InterfaceIncomingRules |-> EmptyMap]

(* switch cr.SourceAs.matchMode *)
IndexSource(mp, cr, k) ==
    LET s == cr.SourceAs
        d == cr.DestinationAs
    IN  CASE s.matchMode = EXACT ->
               [mp EXCEPT !.SourceRules = MapAppend(@, s.IA, k)]
          [] s.matchMode = RANGE ->
               [mp EXCEPT !.SourceRules = AppendRange(@, s, k)]
          [] s.matchMode = ASONLY ->
               [mp EXCEPT !.ASOnlySourceRules = MapAppend(@, s.IA.A, k)]
          [] s.matchMode = ISDONLY ->
               [mp EXCEPT !.ISDOnlySourceRules = MapAppend(@, s.IA.I, k)]
          [] s.matchMode = ANY ->
               IF d.matchMode # ANY
               THEN [mp EXCEPT !.DestinationAnySourceRules = MapAppend(@, d.IA, k)]
               ELSE [mp EXCEPT !.L4OnlyRules = Append(@, k)]
          [] s.matchMode = INTF ->
               [mp EXCEPT !.InterfaceIncomingRules = MapAppend(@, s.intf, k)]
          [] OTHER -> mp

(* switch cr.DestinationAs.matchMode *)
IndexDestination(mp, cr, k) ==
    LET s == cr.SourceAs
        d == cr.DestinationAs
    IN  CASE d.matchMode = EXACT ->
               [mp EXCEPT !.DestinationRules = MapAppend(@, d.IA, k)]
          [] d.matchMode = RANGE ->
               [mp EXCEPT !.DestinationRules = AppendRange(@, d, k)]
          [] d.matchMode = ASONLY ->
               [mp EXCEPT !.ASOnlyDestRules = MapAppend(@, d.IA.A, k)]
          [] d.matchMode = ISDONLY ->
               [mp EXCEPT !.ISDOnlyDestRules = MapAppend(@, d.IA.I, k)]
          [] d.matchMode = ANY ->
               IF s.matchMode # ANY
               THEN [mp EXCEPT !.SourceAnyDestinationRules = MapAppend(@, s.IA, k)]
               ELSE mp
          [] OTHER -> mp

(* for k, cr := range crs.  diverges: the loops of a RANGE case of rule k *)
(* never end, RulesToMap does not return and the tables are those built   *)
(* from the rules before k.                                                *)
RECURSIVE RulesLoop(_, _, _)
RulesLoop(mp, crs, k) ==
    IF k > Len(crs)
    THEN mp
    ELSE IF RangeNeverEnds(crs[k].SourceAs) \/ RangeNeverEnds(crs[k].DestinationAs)
    THEN [mp EXCEPT !.diverges = TRUE]
    ELSE RulesLoop(IndexDestination(IndexSource(mp, crs[k], k), crs[k], k), crs, k + 1)

RulesToMap(crs) == RulesLoop(EmptyMapRules(crs), crs, 1)

---------------------------------------------------------------------------
(* for j := 0; j < lb; j++: the references stored for a[l][i] = x *)
RECURSIVE IntersectLoopJ(_, _)
IntersectLoopJ(x, bm) ==
    IF bm = <<>>
    THEN <<>>
    ELSE (IF x = Head(bm) THEN <<x>> ELSE <<>>) \o IntersectLoopJ(x, Tail(bm))

(* for i := 0; i < la; i++ *)
RECURSIVE IntersectLoopI(_, _)
IntersectLoopI(al, bm) ==
    IF al = <<>>
    THEN <<>>
    ELSE IntersectLoopJ(Head(al), bm) \o IntersectLoopI(Tail(al), bm)

(* for m := 0; m < 3; m++ *)
IntersectLoopM(al, b) ==
    IntersectLoopI(al, b[1]) \o IntersectLoopI(al, b[2]) \o IntersectLoopI(al, b[3])

(* for l := 0; l < 3; l++: the references stored, in the order they are stored *)
IntersectFound(a, b) ==
    IntersectLoopM(a[1], b) \o IntersectLoopM(a[2], b) \o IntersectLoopM(a[3], b)

(* var matches = make([]*InternalClassRule, 10), filled from the front *)
PadMatches(found) ==
    IF Len(found) > MatchesLen
    THEN [panic |-> TRUE, matches |-> <<>>]
    ELSE [panic |-> FALSE,
          matches |-> found \o [i \in 1..(MatchesLen - Len(found)) |-> NilRule]]

(* matches[k] = a[l][i] panics once k reaches len(matches) *)
intersectListsRules(a, b) == PadMatches(IntersectFound(a, b))

(* uint8(x) of a Go int *)
Uint8(x) == x % 256

matchRuleL4ExtensionType(rule, extensions) ==
    \E i \in 1..Len(rule.L4Type) :
        \/ rule.L4Type[i].extension = -1
        \/ \E e \in BagToSet(extensions) :
              /\ Uint8(rule.L4Type[i].extension) = e.Type
              /\ rule.L4Type[i].baseProtocol = e.Class

(* number of leading non-nil entries: the loop of matchL4Type breaks at nil *)
RECURSIVE LenToNil(_)
LenToNil(list) ==
    IF list = <<>> \/ Head(list) = NilRule THEN 0 ELSE 1 + LenToNil(Tail(list))

(* whether the inner loop of matchL4Type sets mask[i] for list[i] *)
L4Accepts(rule, l4t, extensions) ==
    \E j \in 1..Len(rule.L4Type) :
        /\ rule.L4Type[j].baseProtocol = l4t
        /\ matchRuleL4ExtensionType(rule, extensions)

matchL4Type(R, mask, list, l4t, extensions) ==
    LET n == LenToNil(list)
        hits == {i \in 1..n : L4Accepts(Deref(R, list[i]), l4t, extensions)}
    IN  IF \E i \in hits : i > Len(mask)
        THEN [panic |-> TRUE, mask |-> mask]
        ELSE [panic |-> FALSE, mask |-> [i \in 1..Len(mask) |-> i \in hits]]

RECURSIVE PrevMaxLoop(_, _, _, _, _, _)
PrevMaxLoop(R, returnRule, mask, list, prevMax, i) ==
    IF i > Len(list)
    THEN [panic |-> FALSE, max |-> prevMax, rule |-> returnRule]
    ELSE IF i > Len(mask)
    THEN [panic |-> TRUE, max |-> prevMax, rule |-> returnRule]
    ELSE IF mask[i]
    THEN IF Deref(R, list[i]).Priority > prevMax
         THEN PrevMaxLoop(R, list[i], mask, list, Deref(R, list[i]).Priority, i + 1)
         ELSE PrevMaxLoop(R, returnRule, mask, list, prevMax, i + 1)
    ELSE [panic |-> FALSE, max |-> prevMax, rule |-> returnRule]

getRuleWithPrevMax(R, returnRule, mask, list, prevMax) ==
    IF list = <<>>
    THEN [panic |-> FALSE, max |-> prevMax, rule |-> returnRule]
    ELSE PrevMaxLoop(R, returnRule, mask, list, prevMax, 1)

---------------------------------------------------------------------------
(* make([]common.ExtnType, 255): 255 zero values *)
InitExtensions == [e \in {ZeroExtn} |-> ScratchLen]

RECURSIVE SeqToBag(_)
SeqToBag(s) == IF s = <<>> THEN EmptyBag ELSE SetToBag({Head(s)}) (+) SeqToBag(Tail(s))

(* Init(noRules) of RegularClassRule and of CachelessClassRule *)
ClassRuleInit(noRules) ==
    [extensions |-> InitExtensions,
     maskMatched |-> [i \in 1..noRules |-> FALSE],
     maskSad |-> [i \in 1..noRules |-> FALSE],
     maskDas |-> [i \in 1..noRules |-> FALSE],
     maskLf |-> [i \in 1..noRules |-> FALSE],
     maskIntf |-> [i \in 1..noRules |-> FALSE]]

(* the two loops appending the packet's extension types to rc.extensions *)
AppendExtensions(extensions, rp) ==
    (extensions (+) SeqToBag(rp.HBHExt)) (+) SeqToBag(rp.E2EExt)

(* an entry that leaves the protocol of the packet out *)
cacheEntryNoL4(rp) ==
    [srcAddress |-> rp.SrcIA, dstAddress |-> rp.DstIA, intf |-> Uint64(rp.IfID), l4type |-> 0]

cacheEntry(rp) ==
    [srcAddress |-> rp.SrcIA, dstAddress |-> rp.DstIA, intf |-> Uint64(rp.IfID), l4type |-> rp.L4Type]

(* ClassRuleCache.Init(maxEntries): crCache.cacheMap = new(sync.Map); the *)
(* map is empty and maxEntries is not kept                                *)
CacheInit(maxEntries) == [x \in {} |-> NilRule]

(* a Get that compares the addresses and the protocol of the entry only *)
CacheGetAnyIntf(cache, entry) ==
    IF \E x \in DOMAIN cache : [x EXCEPT !.intf = entry.intf] = entry
    THEN cache[CHOOSE x \in DOMAIN cache : [x EXCEPT !.intf = entry.intf] = entry]
    ELSE NilRule

(* ClassRuleCache.Get: nil if the entry is not in the cache *)
CacheGet(cache, entry) == IF entry \in DOMAIN cache THEN cache[entry] ELSE NilRule

(* a Put that stores the first rule of the list, whatever rule it is given *)
CachePutFirst(cache, entry, rule) ==
    [x \in (DOMAIN cache) \cup {entry} |-> IF x = entry THEN 1 ELSE cache[x]]

(* a Put that stores the rule under every entry of the cache *)
CachePutAll(cache, entry, rule) ==
    [x \in (DOMAIN cache) \cup {entry} |-> rule]

(* ClassRuleCache.Put: cacheMap.Store(entry, rule) *)
CachePut(cache, entry, rule) ==
    [x \in (DOMAIN cache) \cup {entry} |-> IF x = entry THEN rule ELSE cache[x]]

(* returnRule = emptyRule, before the lookups *)
InitialReturnRule == emptyRule

(* sources[0..2] and destinations[0..2] *)
Sources(R, rp) ==
    <<Lookup(R.SourceRules, rp.SrcIA),
      Lookup(R.ASOnlySourceRules, rp.SrcIA.A),
      Lookup(R.ISDOnlySourceRules, rp.SrcIA.I)>>

Destinations(R, rp) ==
    <<Lookup(R.DestinationRules, rp.DstIA),
      Lookup(R.ASOnlyDestRules, rp.DstIA.A),
      Lookup(R.ISDOnlyDestRules, rp.DstIA.I)>>

(* the five lists the rule is chosen from *)
CandidateLists(R, rp, matched) ==
    [matched |-> matched,
     sad |-> Lookup(R.SourceAnyDestinationRules, rp.SrcIA),
     das |-> Lookup(R.DestinationAnySourceRules, rp.DstIA),
     intf |-> Lookup(R.InterfaceIncomingRules, Uint64(rp.IfID)),
     lf |-> R.L4OnlyRules]

(* the five calls of matchL4Type *)
MatchMasks(R, c, rp, lists) ==
    [maskMatched |-> matchL4Type(R, c.maskMatched, lists.matched, rp.L4Type, c.extensions),
     maskSad |-> matchL4Type(R, c.maskSad, lists.sad, rp.L4Type, c.extensions),
     maskDas |-> matchL4Type(R, c.maskDas, lists.das, rp.L4Type, c.extensions),
     maskLf |-> matchL4Type(R, c.maskLf, lists.lf, rp.L4Type, c.extensions),
     maskIntf |-> matchL4Type(R, c.maskIntf, lists.intf, rp.L4Type, c.extensions)]

(* max, returnRule = getRuleWithPrevMax(returnRule, mask, list, max) *)
StepPrevMax(R, g, mask, list) ==
    IF g.panic THEN g ELSE getRuleWithPrevMax(R, g.rule, mask, list, g.max)

(* max := -1 and the five calls of getRuleWithPrevMax, in their order *)
ChoosePrevMax(R, lists, m) ==
    StepPrevMax(R,
      StepPrevMax(R,
        StepPrevMax(R,
          StepPrevMax(R,
            StepPrevMax(R, [panic |-> FALSE, max |-> -1, rule |-> InitialReturnRule],
                        m.maskMatched.mask, lists.matched),
            m.maskSad.mask, lists.sad),
          m.maskDas.mask, lists.das),
        m.maskIntf.mask, lists.intf),
      m.maskLf.mask, lists.lf)

WithMasks(c, m) ==
    [c EXCEPT !.maskMatched = m.maskMatched.mask, !.maskSad = m.maskSad.mask,
              !.maskDas = m.maskDas.mask, !.maskLf = m.maskLf.mask,
              !.maskIntf = m.maskIntf.mask]

FullMatchChosen(c, lists, m, g) ==
    IF g.panic
    THEN [panic |-> TRUE, rule |-> NilRule, c |-> WithMasks(c, m), lists |-> lists]
    ELSE [panic |-> FALSE, rule |-> g.rule, c |-> WithMasks(c, m), lists |-> lists]

FullMatchMasked(R, c, lists, m) ==
    IF \/ m.maskMatched.panic \/ m.maskSad.panic \/ m.maskDas.panic
       \/ m.maskLf.panic \/ m.maskIntf.panic
    THEN [panic |-> TRUE, rule |-> NilRule, c |-> c, lists |-> lists]
    ELSE FullMatchChosen(c, lists, m, ChoosePrevMax(R, lists, m))

FullMatchLists(R, c, rp, lists) ==
    FullMatchMasked(R, c, lists, MatchMasks(R, c, rp, lists))

FullMatchIntersected(R, c, rp, inter) ==
    IF inter.panic
    THEN [panic |-> TRUE, rule |-> NilRule, c |-> c,
          lists |-> CandidateLists(R, rp, <<>>)]
    ELSE FullMatchLists(R, c, rp, CandidateLists(R, rp, inter.matches))

(* The full match both classifiers run: from returnRule = emptyRule to the *)
(* last getRuleWithPrevMax.  c is the classifier with the packet's         *)
(* extensions already appended.  A panic leaves no rule.                   *)
FullMatch(R, c, rp) ==
    FullMatchIntersected(R, c, rp,
                         intersectListsRules(Sources(R, rp), Destinations(R, rp)))

(* CachelessClassRule.GetRuleForPacket *)
CachelessGetRuleForPacket(R, c, rp) ==
    FullMatch(R, [c EXCEPT !.extensions = AppendExtensions(@, rp)], rp)

(* the cache missed, or the cached rule failed matchRuleL4ExtensionType *)
RegularMiss(cache, entry, fm) ==
    IF fm.panic
    THEN [panic |-> TRUE, rule |-> NilRule, c |-> fm.c, cache |-> cache, hit |-> FALSE]
    ELSE [panic |-> FALSE, rule |-> fm.rule, c |-> fm.c,
          cache |-> CachePut(cache, entry, fm.rule), hit |-> FALSE]

(* from config.Rules.CrCache.Get(entry) on; c has the extensions appended *)
RegularLookup(R, cache, c, rp, cached) ==
    IF cached # NilRule /\ matchRuleL4ExtensionType(Deref(R, cached), c.extensions)
    THEN [panic |-> FALSE, rule |-> cached, c |-> c, cache |-> cache, hit |-> TRUE]
    ELSE RegularMiss(cache, cacheEntry(rp), FullMatch(R, c, rp))

(* RegularClassRule.GetRuleForPacket; hit says the cached rule was returned *)
RegularGetRuleForPacket(R, cache, c, rp) ==
    RegularLookup(R, cache, [c EXCEPT !.extensions = AppendExtensions(@, rp)], rp,
                  CacheGet(cache, cacheEntry(rp)))

---------------------------------------------------------------------------
(* Bounds of the model: rules per configuration, packets classified *)
MaxRules == 2
MaxCalls == 2

(* L4 protocol numbers of the packets: TCP, UDP *)
L4Protocols == {6, 17}

(* the extension a packet may carry, as ext.Type() returns it *)
Extn1 == [Class |-> 6, Type |-> 1]

AddrA == IAOf(1, 1)
AddrB == IAOf(2, 2)

MatchAny == MatchIA(ANY, ZeroIA)

TcpAny == ProtocolMatchType(6, -1)
TcpExt1 == ProtocolMatchType(6, 1)
UdpAny == ProtocolMatchType(17, -1)

L4Lists == {<<TcpAny>>, <<TcpExt1>>, <<TcpExt1, UdpAny>>}

Priorities == {-1, 0, 1}

(* one rule for each table of the index *)
ShapeRules ==
    {InternalClassRule("shape", 1, s, d, <<TcpAny>>, 1) :
        s \in {MatchAny, MatchIA(EXACT, AddrA)}, d \in {MatchAny, MatchIA(EXACT, AddrB)}}
    \cup {InternalClassRule("shape", 1, MatchIntf(1), MatchIA(EXACT, AddrB), <<TcpAny>>, 1)}

(* rules that differ in their L4Type list and priority only *)
L4Rules ==
    {InternalClassRule("l4", p, MatchAny, MatchAny, l, 2) : p \in Priorities, l \in L4Lists}

ClassRules == ShapeRules \cup L4Rules

RuleLists == UNION {[1..n -> ClassRules] : n \in 1..MaxRules}

Packets ==
    {[SrcIA |-> AddrA, DstIA |-> AddrB, IfID |-> 1, L4Type |-> l,
      HBHExt |-> h, E2EExt |-> <<>>] :
        l \in L4Protocols, h \in {<<>>, <<Extn1>>}}

NoPacket == [SrcIA |-> ZeroIA, DstIA |-> ZeroIA, IfID |-> 0, L4Type |-> 0,
             HBHExt |-> <<>>, E2EExt |-> <<>>]

NoLists == [matched |-> <<>>, sad |-> <<>>, das |-> <<>>, intf |-> <<>>, lf |-> <<>>]

InitRet == [rp |-> NoPacket, prev |-> NoPacket, rule |-> NilRule, prevRule |-> NilRule,
            hit |-> FALSE, panic |-> FALSE]

InitFull == [rp |-> NoPacket, rule |-> NilRule, lists |-> NoLists, panic |-> FALSE]

(* The strings of a rule's SourceAs and DestinationAs fields, as the    *)
(* sequence of the parts between the separators "||"; a part is the text *)
(* of an ISD-AS identifier, the text of an integer, or any other text.   *)
IAText(i, a) == <<"ia", i, a>>
IntText(n) == <<"int", n>>
OtherText == <<"other">>

(* addr.IAFromString(s) *)
IAFromString(s) ==
    IF Len(s) = 1 /\ s[1][1] = "ia"
    THEN [IA |-> IAOf(s[1][2], s[1][3]), err |-> FALSE]
    ELSE [IA |-> ZeroIA, err |-> TRUE]

(* strconv.ParseInt(s, 0, 64): 0 and an error for a text that is no integer *)
ParseInt(s) ==
    IF Len(s) = 1 /\ s[1][1] = "int"
    THEN [v |-> s[1][2], err |-> FALSE]
    ELSE [v |-> 0, err |-> TRUE]

(* the error returns of getMatchRuleTypeFromRule: matchRule{} and the error *)
MatchRuleError == [m |-> ZeroMatchRule, err |-> TRUE]

(* case RANGE, after strings.Split(matchRuleField, "||") gave two parts *)
RangeFromParts(lowLim, upLim) ==
    IF lowLim.err \/ upLim.err
    THEN MatchRuleError
    ELSE [m |-> MatchRange(lowLim.IA, upLim.IA), err |-> FALSE]

getMatchRuleTypeFromRule(matchModeField, matchRuleField) ==
    IF matchModeField \in {EXACT, ASONLY, ISDONLY, ANY}
    THEN IF IAFromString(matchRuleField).err
         THEN MatchRuleError
         ELSE [m |-> MatchIA(matchModeField, IAFromString(matchRuleField).IA), err |-> FALSE]
    ELSE IF matchModeField = RANGE
    THEN IF Len(matchRuleField) # 2
         THEN MatchRuleError
         ELSE RangeFromParts(IAFromString(<<matchRuleField[1]>>),
                             IAFromString(<<matchRuleField[2]>>))
    ELSE IF matchModeField = INTF
    THEN [m |-> MatchIntf(ParseInt(matchRuleField).v), err |-> FALSE]
    ELSE MatchRuleError

(* InternalClassRule{} *)
ZeroClassRule == [Name |-> "", Priority |-> 0, SourceAs |-> ZeroMatchRule,
                  DestinationAs |-> ZeroMatchRule, L4Type |-> <<>>, QueueNumber |-> 0]

(* ConvClassRuleToInternal, given the two converted fields *)
ConvWithFields(x, sourceMatch, destinationMatch) ==
    IF sourceMatch.err \/ destinationMatch.err
    THEN [rule |-> ZeroClassRule, err |-> TRUE, done |-> TRUE]
    ELSE [rule |-> InternalClassRule(x.Name, x.Priority, sourceMatch.m, destinationMatch.m,
                       [k \in DOMAIN x.L4Type |->
                           ProtocolMatchType(x.L4Type[k].BaseProtocol, x.L4Type[k].Extension)],
                       x.QueueNumber),
          err |-> FALSE, done |-> TRUE]

ConvClassRuleToInternal(x) ==
    ConvWithFields(x, getMatchRuleTypeFromRule(x.SourceMatchMode, x.SourceAs),
                      getMatchRuleTypeFromRule(x.DestinationMatchMode, x.DestinationAs))

ExternalClassRule(name, prio, srcMode, src, dstMode, dst, l4, qn) ==
    [Name |-> name, Priority |-> prio, SourceMatchMode |-> srcMode, SourceAs |-> src,
     DestinationMatchMode |-> dstMode, DestinationAs |-> dst, L4Type |-> l4,
     QueueNumber |-> qn]

NoExternalRule == ExternalClassRule("", 0, EXACT, <<OtherText>>, EXACT, <<OtherText>>, <<>>, 0)

NotConverted == [rule |-> ZeroClassRule, err |-> FALSE, done |-> FALSE]

(* no rule is being loaded *)
NotLoading == extRule = NoExternalRule /\ conv = NotConverted

(* no goroutine calls the cache directly *)
NoCacheLog == [stores |-> <<>>, calls |-> 0]

(* Bound of the maxEntries given to ClassRuleCache.Init *)
MaxEntries == 2
CacheSizes == 1..MaxEntries

(* InitQos: the rules are indexed, the cache and the two classifiers set up *)
InitClassifier(lists) ==
    /\ \E crs \in lists :
          /\ Rules = RulesToMap(crs)
          /\ rc = ClassRuleInit(Len(crs))
          /\ cl = ClassRuleInit(Len(crs))
    /\ \E maxEntries \in CacheSizes : CrCache = CacheInit(maxEntries)
    /\ ret = InitRet
    /\ full = InitFull
    /\ calls = 0
    /\ cacheLog = NoCacheLog

InitClass(lists) == InitClassifier(lists) /\ callers = <<>> /\ NotLoading

(* rc.GetRuleForPacket(config, rp) on the RegularClassRule; a panic ends it *)
Regular(rp) ==
    IF ret.panic
    THEN UNCHANGED <<rc, CrCache, ret>>
    ELSE \E r \in {RegularGetRuleForPacket(Rules, CrCache, rc, rp)} :
             /\ rc' = r.c
             /\ CrCache' = r.cache
             /\ ret' = [rp |-> rp, prev |-> ret.rp, rule |-> r.rule,
                        prevRule |-> ret.rule, hit |-> r.hit, panic |-> r.panic]

(* rc.GetRuleForPacket(config, rp) on the CachelessClassRule; a panic ends it *)
Cacheless(rp) ==
    IF full.panic
    THEN UNCHANGED <<cl, full>>
    ELSE \E r \in {CachelessGetRuleForPacket(Rules, cl, rp)} :
             /\ cl' = r.c
             /\ full' = [rp |-> rp, rule |-> r.rule, lists |-> r.lists,
                         panic |-> r.panic]

(* The packet rp is classified by both classifiers, each an instance of   *)
(* its own on the one configuration (the loop body of TestRuleMatchModes). *)
Classify(rp) ==
    /\ ~Rules.diverges
    /\ calls < MaxCalls
    /\ ~(ret.panic /\ full.panic)
    /\ Regular(rp)
    /\ Cacheless(rp)
    /\ calls' = calls + 1
    /\ UNCHANGED <<Rules, callers, cacheLog, extRule, conv>>
    /\ UNCHANGED queueVars


---------------------------------------------------------------------------
(* ChannelPacketQueue *)

(* conf.PoliceAction *)
PASS == "PASS"
DROP == "DROP"
DROPNOTIFY == "DROPNOTIFY"

(* rand.Intn(100) *)
RandN == 100
Samples == 0..(RandN - 1)

(* Bounds of the queue model *)
MaxQueueLength == 2
NumWorkers == 3
MaxSent == 3
MaxPop == 2

(* make(chan *QPkt, MaxLength+1) -- the capacity of the channel *)
ChanCap(pq) == pq.MaxLength + 1

GetLength(q) == Len(q)

GetCapacity(pq) == pq.MaxLength

(* The pairs <<length, MaxLength>> with MaxLength <= 100 for which the    *)
(* float64 product length / MaxLength * 100 lies just below the integer   *)
(* 100 * length / MaxLength, so that int() cuts it to one less            *)
(* (29.0 / 50.0 * 100 is 57.99999999999999).                              *)
FloatBelowInteger == {<<29, 50>>, <<29, 100>>, <<57, 100>>, <<58, 100>>}

(* pq.GetFillLevel(): int(float64(len) / float64(MaxLength) * 100), for   *)
(* MaxLength <= 100                                                       *)
GetFillLevel(pq, q) ==
    IF <<Len(q), pq.MaxLength>> \in FloatBelowInteger
    THEN ((Len(q) * 100) \div pq.MaxLength) - 1
    ELSE (Len(q) * 100) \div pq.MaxLength

(* the loop of CheckAction from entry j downward: the actions it can     *)
(* return, one for each outcome of the samples it draws                   *)
RECURSIVE ProfileScan(_, _, _)
ProfileScan(profile, level, j) ==
    IF j = 0
    THEN {PASS}
    ELSE IF level >= profile[j].FillLevel
    THEN {profile[j].Action : s \in {x \in Samples : x < profile[j].Prob}}
         \cup (IF \E x \in Samples : ~(x < profile[j].Prob)
               THEN ProfileScan(profile, level, j - 1)
               ELSE {})
    ELSE ProfileScan(profile, level, j - 1)

CheckAction(pq, q) ==
    IF pq.MaxLength <= GetLength(q)
    THEN {DROPNOTIFY}
    ELSE ProfileScan(pq.Profile, GetFillLevel(pq, q), Len(pq.Profile))

Profiles ==
    {<<>>,
     <<[FillLevel |-> 50, Prob |-> 50, Action |-> DROP]>>,
     <<[FillLevel |-> 0, Prob |-> 0, Action |-> DROP],
       [FillLevel |-> 50, Prob |-> 100, Action |-> DROPNOTIFY]>>}

NoPkt == 0

IdleWorker == [pc |-> "idle", pkt |-> NoPkt, action |-> PASS]

(* no PopMultiple call is running *)
NoMultiple == [left |-> 0, pkts |-> <<>>]

NoHistory == [enq |-> <<>>, out |-> <<>>]

(* the queue of the configurations of the classifier: not used by them *)
IdleQueue ==
    /\ pktQue = [MaxLength |-> 1, Profile |-> <<>>]
    /\ queue = <<>>
    /\ bufQueue = <<>>
    /\ workers = <<>>
    /\ popped = NoPkt
    /\ multi = NoMultiple
    /\ fifo = NoHistory
    /\ sent = 0

(* InitQueue *)
InitQueue ==
    /\ \E n \in 1..MaxQueueLength, prof \in Profiles :
          pktQue = [MaxLength |-> n, Profile |-> prof]
    /\ queue = <<>>
    /\ bufQueue = <<>>
    /\ workers = [w \in 1..NumWorkers |-> IdleWorker]
    /\ popped = NoPkt
    /\ multi = NoMultiple
    /\ fifo = NoHistory
    /\ sent = 0

(* worker w takes its next packet and calls pq.CheckAction() for it: the *)
(* test pq.pktQue.MaxLength <= pq.GetLength() reads the length of the     *)
(* channel and the call returns DROPNOTIFY or goes on to the fill level   *)
WorkerCheckAction(w) ==
    /\ workers[w].pc = "idle"
    /\ sent < MaxSent
    /\ sent' = sent + 1
    /\ workers' = [workers EXCEPT ![w] =
                     IF pktQue.MaxLength <= GetLength(queue)
                     THEN [pc |-> "idle", pkt |-> sent + 1, action |-> DROPNOTIFY]
                     ELSE [pc |-> "level", pkt |-> sent + 1, action |-> PASS]]
    /\ UNCHANGED <<pktQue, queue, bufQueue, popped, multi, fifo>>
    /\ UNCHANGED classVars

(* level := pq.GetFillLevel() reads the length of the channel again, as   *)
(* it is by now, and the loop over the profile gives the action returned  *)
WorkerCheckLevel(w) ==
    /\ workers[w].pc = "level"
    /\ \E act \in ProfileScan(pktQue.Profile, GetFillLevel(pktQue, queue),
                              Len(pktQue.Profile)) :
          workers' = [workers EXCEPT ![w].pc = IF act = PASS THEN "enqueue" ELSE "idle",
                                     ![w].action = act]
    /\ UNCHANGED <<pktQue, queue, bufQueue, popped, multi, fifo, sent>>
    /\ UNCHANGED classVars

(* worker w calls pq.Enqueue(pkt): the send blocks while the channel is full *)
WorkerEnqueue(w) ==
    /\ workers[w].pc = "enqueue"
    /\ Len(queue) < ChanCap(pktQue)
    /\ queue' = Append(queue, workers[w].pkt)
    /\ fifo' = [fifo EXCEPT !.enq = Append(@, workers[w].pkt)]
    /\ workers' = [workers EXCEPT ![w].pc = "idle"]
    /\ UNCHANGED <<pktQue, bufQueue, popped, multi, sent>>
    /\ UNCHANGED classVars

(* pq.Pop(): the select with a default case *)
Pop ==
    /\ multi.left = 0
    /\ IF queue # <<>>
       THEN /\ popped' = Head(queue) /\ queue' = Tail(queue)
            /\ fifo' = [fifo EXCEPT !.out = Append(@, Head(queue))]
       ELSE popped' = NoPkt /\ queue' = queue /\ fifo' = fifo
    /\ UNCHANGED <<pktQue, bufQueue, workers, multi, sent>>
    /\ UNCHANGED classVars

(* pq.PopMultiple(number) is called: pkts := make([]*QPkt, number) *)
PopMultipleCall(number) ==
    /\ multi.left = 0
    /\ multi' = [left |-> number, pkts |-> <<>>]
    /\ UNCHANGED <<pktQue, queue, bufQueue, workers, popped, fifo, sent>>
    /\ UNCHANGED classVars

(* pkts[i] = <-pq.queue: the receive waits for a packet; the call returns *)
(* when left is 0                                                          *)
PopMultipleReceive ==
    /\ multi.left > 0
    /\ queue # <<>>
    /\ multi' = [left |-> multi.left - 1, pkts |-> Append(multi.pkts, Head(queue))]
    /\ queue' = Tail(queue)
    /\ fifo' = [fifo EXCEPT !.out = Append(@, Head(queue))]
    /\ UNCHANGED <<pktQue, bufQueue, workers, popped, sent>>
    /\ UNCHANGED classVars

---------------------------------------------------------------------------
(* PacketBufQueue: the queue on the ring buffer.  The ring is a bounded   *)
(* FIFO of MaxLength entries; Write and Read are called with block =      *)
(* false and so never wait.                                                *)

(* what Pop leaves behind when the type assertion on a nil entry panics *)
PopPanic == -1

(* pq.bufQueue.Readable() *)
BufGetLength(b) == Len(b)

BufGetCapacity(pq) == pq.MaxLength

(* pq.bufQueue.Write(ringbuf.EntryList{rp}, false): nothing is written to a *)
(* ring without a writable entry                                            *)
RingWrite(pq, b, pkt) == IF Len(b) < pq.MaxLength THEN Append(b, pkt) ELSE b

(* int(float64(pq.GetLength()) / float64(pq.pktQue.MaxLength) * 100) *)
BufGetFillLevel(pq, b) == GetFillLevel(pq, b)

(* PacketBufQueue.CheckAction: the profile loop alone *)
BufCheckAction(pq, b) ==
    ProfileScan(pq.Profile, BufGetFillLevel(pq, b), Len(pq.Profile))

(* worker w takes its next packet and calls pq.CheckAction() for it *)
BufWorkerCheckAction(w) ==
    /\ popped # PopPanic
    /\ workers[w].pc = "idle"
    /\ sent < MaxSent
    /\ sent' = sent + 1
    /\ \E act \in BufCheckAction(pktQue, bufQueue) :
          workers' = [workers EXCEPT ![w] =
                        [pc |-> IF act = PASS THEN "enqueue" ELSE "idle",
                         pkt |-> sent + 1, action |-> act]]
    /\ UNCHANGED <<pktQue, queue, bufQueue, popped, multi, fifo>>
    /\ UNCHANGED classVars

(* worker w calls pq.Enqueue(pkt) *)
BufWorkerEnqueue(w) ==
    /\ popped # PopPanic
    /\ workers[w].pc = "enqueue"
    /\ bufQueue' = RingWrite(pktQue, bufQueue, workers[w].pkt)
    /\ fifo' = [fifo EXCEPT !.enq = Append(@, workers[w].pkt)]
    /\ workers' = [workers EXCEPT ![w].pc = "idle"]
    /\ UNCHANGED <<pktQue, queue, popped, multi, sent>>
    /\ UNCHANGED classVars

(* pq.Pop(): Read fills pkts[0] if an entry is readable; the type         *)
(* assertion of pkts[0] to a QPkt pointer panics on the nil entry         *)
BufPop ==
    /\ popped # PopPanic
    /\ IF bufQueue # <<>>
       THEN /\ popped' = Head(bufQueue) /\ bufQueue' = Tail(bufQueue)
            /\ fifo' = [fifo EXCEPT !.out = Append(@, Head(bufQueue))]
       ELSE popped' = PopPanic /\ bufQueue' = bufQueue /\ fifo' = fifo
    /\ UNCHANGED <<pktQue, queue, workers, multi, sent>>
    /\ UNCHANGED classVars

(* pq.bufQueue.Read(pkts, false): the entries read, at most len(pkts) *)
RingRead(b, number) == SubSeq(b, 1, IF Len(b) < number THEN Len(b) ELSE number)

(* pq.PopMultiple(number): Read takes the readable entries, at most       *)
(* number; the type assertion panics on the first entry left nil          *)
BufPopMultiple(number) ==
    /\ popped # PopPanic
    /\ bufQueue' = SubSeq(bufQueue, Len(RingRead(bufQueue, number)) + 1, Len(bufQueue))
    /\ IF Len(RingRead(bufQueue, number)) = number
       THEN /\ multi' = [left |-> 0, pkts |-> RingRead(bufQueue, number)]
            /\ fifo' = [fifo EXCEPT !.out = @ \o RingRead(bufQueue, number)]
            /\ popped' = popped
       ELSE popped' = PopPanic /\ multi' = multi /\ fifo' = fifo
    /\ UNCHANGED <<pktQue, queue, workers, sent>>
    /\ UNCHANGED classVars

---------------------------------------------------------------------------
(* Rules and packets that differ in the source and destination only *)

(* Bound of the rule lists of the index model *)
MaxIndexRules == 1

IndexISDs == {1, 2}
IndexASes == {1, 2, 3}
IndexIAs == {IAOf(i, a) : i \in IndexISDs, a \in IndexASes}

(* 1-1, 2-3, 2-0, 0-2, 1-1||2-2, 1-2||1-3, 65535-1||65535-1 and ANY *)
IndexMatchRules ==
    {MatchIA(EXACT, IAOf(1, 1)), MatchIA(EXACT, IAOf(2, 3)),
     MatchIA(ISDONLY, IAOf(2, 0)), MatchIA(ASONLY, IAOf(0, 2)),
     MatchRange(IAOf(1, 1), IAOf(2, 2)), MatchRange(IAOf(1, 2), IAOf(1, 3)),
     MatchRange(IAOf(65535, 1), IAOf(65535, 1)),
     MatchAny}

IndexClassRules ==
    {InternalClassRule("index", 1, s, d, <<TcpAny>>, 1) :
        s \in IndexMatchRules, d \in IndexMatchRules}

(* one rule more than the matches array holds, all for the same packets *)
CrowdedRuleList ==
    [k \in 1..(MatchesLen + 1) |->
        InternalClassRule("index", 1, MatchIA(EXACT, IAOf(1, 1)),
                          MatchIA(EXACT, IAOf(2, 3)), <<TcpAny>>, 1)]

IndexRuleLists ==
    UNION {[1..n -> IndexClassRules] : n \in 1..MaxIndexRules} \cup {CrowdedRuleList}

IndexPackets ==
    {[SrcIA |-> s, DstIA |-> d, IfID |-> 1, L4Type |-> 6,
      HBHExt |-> <<>>, E2EExt |-> <<>>] : s \in IndexIAs, d \in IndexIAs}

(* the first packet after InitQos *)
ClassifyFirst(rp) == calls = 0 /\ Classify(rp)

---------------------------------------------------------------------------
(* The classifiers on rules and packets that differ in L4 type, extension *)
(* and priority.                                                          *)
Init == InitClass(RuleLists) /\ IdleQueue

Next == \E rp \in Packets : Classify(rp)

Spec == Init /\ [][Next]_vars

(* The queue under several workers and a consumer; the classifier is idle *)
InitQ == InitClass({<<InternalClassRule("shape", 1, MatchAny, MatchAny, <<TcpAny>>, 1)>>})
         /\ InitQueue

NextQ ==
    \/ \E w \in 1..NumWorkers : WorkerCheckAction(w)
    \/ \E w \in 1..NumWorkers : WorkerCheckLevel(w)
    \/ \E w \in 1..NumWorkers : WorkerEnqueue(w)
    \/ Pop
    \/ \E number \in 1..MaxPop : PopMultipleCall(number)
    \/ PopMultipleReceive

SpecQueue == InitQ /\ [][NextQ]_vars

(* The ring queue under the same workers and consumer *)
NextBuf ==
    \/ \E w \in 1..NumWorkers : BufWorkerCheckAction(w)
    \/ \E w \in 1..NumWorkers : BufWorkerEnqueue(w)
    \/ BufPop
    \/ \E number \in 1..MaxPop : BufPopMultiple(number)

SpecBuf == InitQ /\ [][NextBuf]_vars

(* CheckAction of both variants on queues that already hold packets *)
ScanProfiles ==
    Profiles \cup
    {<<[FillLevel |-> 58, Prob |-> 100, Action |-> DROP]>>,
     <<[FillLevel |-> 0, Prob |-> 50, Action |-> DROP],
       [FillLevel |-> 58, Prob |-> 100, Action |-> DROPNOTIFY]>>}

ScanMaxLengths == {2, 50}

ScanLengths == {0, 1, 2, 28, 29, 30, 50}

(* the packets enqueued before the workers start: numbered after theirs *)
Filled(n) == [i \in 1..n |-> MaxSent + i]

InitProfile ==
    /\ InitClass({<<InternalClassRule("shape", 1, MatchAny, MatchAny, <<TcpAny>>, 1)>>})
    /\ \E n \in ScanMaxLengths, prof \in ScanProfiles :
          pktQue = [MaxLength |-> n, Profile |-> prof]
    /\ \E len \in ScanLengths :
          /\ len <= pktQue.MaxLength
          /\ queue = Filled(len)
          /\ bufQueue = Filled(len)
          /\ fifo = [enq |-> Filled(len), out |-> <<>>]
    /\ workers = [w \in 1..NumWorkers |-> IdleWorker]
    /\ popped = NoPkt
    /\ multi = NoMultiple
    /\ sent = 0

NextProfile ==
    \/ \E w \in 1..NumWorkers : WorkerCheckAction(w)
    \/ \E w \in 1..NumWorkers : WorkerCheckLevel(w)
    \/ \E w \in 1..NumWorkers : BufWorkerCheckAction(w)

SpecProfile == InitProfile /\ [][NextProfile]_vars

(* Goroutines calling Get and Put of the one ClassRuleCache.  Load and   *)
(* Store of sync.Map each take effect at one instant between the call    *)
(* and the return.                                                        *)
NumCallers == 2
MaxCacheOps == 3

(* the keys: one packet's entry and the four entries one field away from it *)
CachePackets ==
    {[SrcIA |-> s, DstIA |-> d, IfID |-> i, L4Type |-> l, HBHExt |-> <<>>, E2EExt |-> <<>>] :
        s \in {AddrA, AddrB}, d \in {AddrA, AddrB}, i \in {1, 2}, l \in L4Protocols}

CacheKeys ==
    {cacheEntry(rp) : rp \in
        {x \in CachePackets :
            Cardinality({f \in {"s", "d", "i", "l"} :
                \/ f = "s" /\ x.SrcIA # AddrA
                \/ f = "d" /\ x.DstIA # AddrB
                \/ f = "i" /\ x.IfID # 1
                \/ f = "l" /\ x.L4Type # 6}) <= 1}}

(* the entry whose Gets are followed: the one every other key is one field away from *)
GetKeys ==
    {cacheEntry([SrcIA |-> AddrA, DstIA |-> AddrB, IfID |-> 1, L4Type |-> 6,
                 HBHExt |-> <<>>, E2EExt |-> <<>>])}

(* the rules put: returnRule of GetRuleForPacket is never nil *)
CachedRules == {emptyRule, 1}

IdleCaller == [pc |-> "idle", entry |-> cacheEntry(NoPacket), rule |-> NilRule,
               floor |-> 0, at |-> 0, r |-> NilRule]

(* the Stores on entry that returned, as positions of the log *)
CompletedStores(log, entry) ==
    {i \in 1..Len(log.stores) : log.stores[i].entry = entry /\ log.stores[i].returned}

SetMax(S) == IF S = {} THEN 0 ELSE CHOOSE x \in S : \A y \in S : y <= x

(* caller c can make a call; of the goroutines that have not called yet, *)
(* which are all alike, the one of least number calls first              *)
CanCall(c) ==
    /\ callers[c].pc \in {"idle", "loaded"}
    /\ callers[c] = IdleCaller => \A d \in 1..(c - 1) : callers[d] # IdleCaller
    /\ cacheLog.calls < MaxCacheOps

(* crCache.Put(entry, rule) is called and cacheMap.Store(entry, rule)     *)
(* takes effect; the call itself changes nothing another goroutine sees   *)
PutStore(c, entry, rule) ==
    /\ CanCall(c)
    /\ CrCache' = CachePut(CrCache, entry, rule)
    /\ cacheLog' = [stores |-> Append(cacheLog.stores,
                                      [entry |-> entry, rule |-> rule, returned |-> FALSE]),
                    calls |-> cacheLog.calls + 1]
    /\ callers' = [callers EXCEPT ![c] =
                     [IdleCaller EXCEPT !.pc = "stored", !.entry = entry, !.rule = rule,
                                        !.at = Len(cacheLog.stores) + 1]]
    /\ UNCHANGED <<Rules, rc, cl, ret, full, calls, extRule, conv>>
    /\ UNCHANGED queueVars

(* Put returns *)
PutReturn(c) ==
    /\ callers[c].pc = "stored"
    /\ cacheLog' = [cacheLog EXCEPT !.stores[callers[c].at].returned = TRUE]
    /\ callers' = [callers EXCEPT ![c] = IdleCaller]
    /\ UNCHANGED <<Rules, CrCache, rc, cl, ret, full, calls, extRule, conv>>
    /\ UNCHANGED queueVars

(* crCache.Get(entry) is called; floor: the last Store on entry that has returned *)
GetCall(c, entry) ==
    /\ CanCall(c)
    /\ callers' = [callers EXCEPT ![c] =
                     [IdleCaller EXCEPT !.pc = "get", !.entry = entry,
                                        !.floor = SetMax(CompletedStores(cacheLog, entry))]]
    /\ cacheLog' = [cacheLog EXCEPT !.calls = @ + 1]
    /\ UNCHANGED <<Rules, CrCache, rc, cl, ret, full, calls, extRule, conv>>
    /\ UNCHANGED queueVars

(* crCache.cacheMap.Load(entry) takes effect and Get returns r *)
GetLoad(c) ==
    /\ callers[c].pc = "get"
    /\ callers' = [callers EXCEPT ![c].pc = "loaded",
                                  ![c].r = CacheGet(CrCache, callers[c].entry),
                                  ![c].at = Len(cacheLog.stores)]
    /\ UNCHANGED <<Rules, CrCache, rc, cl, ret, full, calls, cacheLog, extRule, conv>>
    /\ UNCHANGED queueVars

InitCache ==
    /\ InitClassifier({<<InternalClassRule("shape", 1, MatchAny, MatchAny, <<TcpAny>>, 1)>>})
    /\ IdleQueue
    /\ callers = [c \in 1..NumCallers |-> IdleCaller]
    /\ NotLoading

NextCache ==
    \/ \E c \in 1..NumCallers, entry \in CacheKeys, rule \in CachedRules : PutStore(c, entry, rule)
    \/ \E c \in 1..NumCallers : PutReturn(c)
    \/ \E c \in 1..NumCallers, entry \in GetKeys : GetCall(c, entry)
    \/ \E c \in 1..NumCallers : GetLoad(c)

SpecCache == InitCache /\ [][NextCache]_vars

(* The dispatcher: each worker runs process(packet) on the queue the     *)
(* packet's rule selects, either a channel queue or a ring queue of the   *)
(* same MaxLength and Profile.                                            *)

(* queue.police(packet): PASS or the over-rate action, as the tokens allow *)
PoliceBucket == {PASS, DROP}

(* a step of process that was not run *)
Skipped == "SKIPPED"

IdleProcess == [pc |-> "idle", pkt |-> NoPkt, que |-> "chan",
                police |-> Skipped, check |-> Skipped, action |-> PASS]

(* steps 1 to 3 of process: the queue is selected and polices the packet *)
ProcessPolice(w) ==
    /\ popped # PopPanic
    /\ workers[w].pc = "idle"
    /\ sent < MaxSent
    /\ sent' = sent + 1
    /\ \E q \in {"chan", "buf"}, act \in PoliceBucket :
          workers' = [workers EXCEPT ![w] =
                        [pc |-> IF act = PASS THEN "check" ELSE "idle",
                         pkt |-> sent + 1, que |-> q,
                         police |-> act, check |-> Skipped, action |-> act]]
    /\ UNCHANGED <<pktQue, queue, bufQueue, popped, multi, fifo>>
    /\ UNCHANGED classVars

(* step 4 of process: queue.checkAction() of the selected queue.  The    *)
(* channel queue first tests its length and reads it again for the fill   *)
(* level; the ring queue reads its length once                            *)
ProcessCheckAction(w) ==
    /\ popped # PopPanic
    /\ workers[w].pc = "check"
    /\ IF workers[w].que = "chan"
       THEN workers' = [workers EXCEPT ![w] =
                          IF pktQue.MaxLength <= GetLength(queue)
                          THEN [@ EXCEPT !.pc = "idle", !.check = DROPNOTIFY,
                                         !.action = DROPNOTIFY]
                          ELSE [@ EXCEPT !.pc = "level"]]
       ELSE \E act \in BufCheckAction(pktQue, bufQueue) :
               workers' = [workers EXCEPT ![w].pc = IF act = PASS THEN "enqueue" ELSE "idle",
                                          ![w].check = act, ![w].action = act]
    /\ UNCHANGED <<pktQue, queue, bufQueue, popped, multi, fifo, sent>>
    /\ UNCHANGED classVars

(* level := pq.GetFillLevel() and the loop of the channel queue's CheckAction *)
ProcessCheckLevel(w) ==
    /\ popped # PopPanic
    /\ workers[w].pc = "level"
    /\ \E act \in ProfileScan(pktQue.Profile, GetFillLevel(pktQue, queue),
                              Len(pktQue.Profile)) :
          workers' = [workers EXCEPT ![w].pc = IF act = PASS THEN "enqueue" ELSE "idle",
                                     ![w].check = act, ![w].action = act]
    /\ UNCHANGED <<pktQue, queue, bufQueue, popped, multi, fifo, sent>>
    /\ UNCHANGED classVars

(* step 5 of process: queue.enqueue(packet) on the selected queue *)
ProcessEnqueue(w) ==
    \/ workers[w].que = "chan" /\ WorkerEnqueue(w)
    \/ workers[w].que = "buf" /\ BufWorkerEnqueue(w)

(* the consumer pops a queue that canDequeue() *)
ProcessPop ==
    \/ Pop
    \/ bufQueue # <<>> /\ BufPop

InitDispatch ==
    /\ InitClass({<<InternalClassRule("shape", 1, MatchAny, MatchAny, <<TcpAny>>, 1)>>})
    /\ \E n \in 1..MaxQueueLength, prof \in Profiles :
          pktQue = [MaxLength |-> n, Profile |-> prof]
    /\ queue = <<>>
    /\ bufQueue = <<>>
    /\ workers = [w \in 1..NumWorkers |-> IdleProcess]
    /\ popped = NoPkt
    /\ multi = NoMultiple
    /\ fifo = NoHistory
    /\ sent = 0

NextDispatch ==
    \/ \E w \in 1..NumWorkers : ProcessPolice(w)
    \/ \E w \in 1..NumWorkers : ProcessCheckAction(w)
    \/ \E w \in 1..NumWorkers : ProcessCheckLevel(w)
    \/ \E w \in 1..NumWorkers : ProcessEnqueue(w)
    \/ ProcessPop

SpecDispatch == InitDispatch /\ [][NextDispatch]_vars

(* Loading one rule of the configuration: the rule is converted and, if  *)
(* the conversion returns no error, the index is built from it.           *)
TextParts == {IAText(1, 1), IAText(1, 2), IAText(2, 1), IntText(3), IntText(-1), OtherText}

FieldStrings ==
    {<<a>> : a \in TextParts}
    \cup {<<a, b>> : a \in TextParts, b \in TextParts}
    \cup {<<IAText(1, 1), IAText(1, 2), IAText(2, 1)>>}

ModeCodes == (EXACT - 1)..(INTF + 1)

DestinationFields ==
    {<<ANY, <<IAText(1, 1)>>>>, <<EXACT, <<OtherText>>>>,
     <<RANGE, <<IAText(1, 2), IAText(1, 1)>>>>, <<INTF, <<IntText(3)>>>>, <<INTF, <<IntText(-3)>>>>,
     <<INTF + 1, <<IAText(1, 1)>>>>}

ExternalRules ==
    {ExternalClassRule("loaded", 1, m, f, d[1], d[2],
                       <<[BaseProtocol |-> 6, Extension |-> -1]>>, 1) :
        m \in ModeCodes, f \in FieldStrings, d \in DestinationFields}

(* ConvClassRuleToInternal(cr) for the rule cr of the configuration *)
ConvertRule ==
    /\ ~conv.done
    /\ conv' = ConvClassRuleToInternal(extRule)
    /\ UNCHANGED <<Rules, CrCache, rc, cl, ret, full, calls, callers, cacheLog, extRule>>
    /\ UNCHANGED queueVars

(* the converted rule is installed: RulesToMap and the classifiers' Init *)
InstallRules ==
    /\ conv.done /\ ~conv.err
    /\ Rules.RulesList = <<>>
    /\ Rules' = RulesToMap(<<conv.rule>>)
    /\ rc' = ClassRuleInit(1)
    /\ cl' = ClassRuleInit(1)
    /\ UNCHANGED <<CrCache, ret, full, calls, callers, cacheLog, extRule, conv>>
    /\ UNCHANGED queueVars

InitLoad ==
    /\ InitClassifier({<<>>})
    /\ callers = <<>>
    /\ IdleQueue
    /\ extRule \in ExternalRules
    /\ conv = NotConverted

NextLoad == ConvertRule \/ InstallRules

SpecLoad == InitLoad /\ [][NextLoad]_vars

(* Workers classifying in parallel: each has a RegularClassRule of its   *)
(* own, all share the index and the cache.  Between the Get and the Put   *)
(* of one call the other workers may run.                                 *)
RaceRuleLists ==
    {<<InternalClassRule("l4", 0, MatchAny, MatchAny, <<TcpAny>>, 2),
       InternalClassRule("l4", 1, MatchAny, MatchAny, <<TcpExt1>>, 2)>>,
     <<InternalClassRule("l4", 1, MatchAny, MatchAny, <<TcpExt1, UdpAny>>, 2),
       InternalClassRule("shape", 1, MatchIA(EXACT, AddrA), MatchIA(EXACT, AddrB),
                         <<UdpAny>>, 1)>>}

(* a worker outside GetRuleForPacket, with its classifier instance c *)
IdleClassifier(c) ==
    [pc |-> "idle", rp |-> NoPacket, c |-> c, cached |-> NilRule, rule |-> NilRule,
     hit |-> FALSE]

(* worker w calls GetRuleForPacket(rp): the extensions are appended and   *)
(* the cache is asked for the packet's entry                              *)
ClassifyGet(w, rp) ==
    /\ \A d \in DOMAIN callers : callers[d].pc # "panic"
    /\ callers[w].pc = "idle"
    /\ callers[w].rp = NoPacket => \A d \in 1..(w - 1) : callers[d].rp # NoPacket
    /\ cacheLog.calls < MaxCacheOps
    /\ callers' = [callers EXCEPT ![w] =
                     [pc |-> "lookup", rp |-> rp,
                      c |-> [callers[w].c EXCEPT !.extensions = AppendExtensions(@, rp)],
                      cached |-> CacheGet(CrCache, cacheEntry(rp)),
                      rule |-> NilRule, hit |-> FALSE]]
    /\ cacheLog' = [cacheLog EXCEPT !.calls = @ + 1]
    /\ UNCHANGED <<Rules, CrCache, rc, cl, ret, full, calls, extRule, conv>>
    /\ UNCHANGED queueVars

(* the rest of the call: the cached rule is returned, or the full match   *)
(* is made and its rule is put into the cache; cacheLog.outputs records   *)
(* the packets and rules of the full matches                              *)
ClassifyReturn(w) ==
    /\ callers[w].pc = "lookup"
    /\ \E r \in {RegularLookup(Rules, CrCache, callers[w].c, callers[w].rp,
                               callers[w].cached)} :
          /\ callers' = [callers EXCEPT ![w].pc = IF r.panic THEN "panic" ELSE "idle",
                                        ![w].c = r.c, ![w].rule = r.rule,
                                        ![w].hit = r.hit]
          /\ CrCache' = r.cache
          /\ cacheLog' = [cacheLog EXCEPT !.outputs =
                            IF r.panic \/ r.hit
                            THEN @
                            ELSE @ \cup {[rp |-> callers[w].rp, rule |-> r.rule]}]
    /\ UNCHANGED <<Rules, rc, cl, ret, full, calls, extRule, conv>>
    /\ UNCHANGED queueVars

InitRace ==
    /\ \E crs \in RaceRuleLists :
          /\ Rules = RulesToMap(crs)
          /\ rc = ClassRuleInit(Len(crs))
          /\ cl = ClassRuleInit(Len(crs))
          /\ callers = [w \in 1..NumCallers |-> IdleClassifier(ClassRuleInit(Len(crs)))]
    /\ \E maxEntries \in CacheSizes : CrCache = CacheInit(maxEntries)
    /\ ret = InitRet
    /\ full = InitFull
    /\ calls = 0
    /\ cacheLog = [stores |-> <<>>, calls |-> 0, outputs |-> {}]
    /\ NotLoading
    /\ IdleQueue

NextRace ==
    \/ \E w \in 1..NumCallers, rp \in Packets : ClassifyGet(w, rp)
    \/ \E w \in 1..NumCallers : ClassifyReturn(w)

SpecRace == InitRace /\ [][NextRace]_vars

(* The index of rule lists of one or two rules whose source and          *)
(* destination take every mode, and one classification on it.            *)
MaxTableRules == 2

(* 1-1, ISD 1, AS 1, 1-1||2-2, 65535-1||65535-1, ANY and interface 1 *)
TableMatchRules ==
    {MatchIA(EXACT, IAOf(1, 1)), MatchIA(ISDONLY, IAOf(1, 0)), MatchIA(ASONLY, IAOf(0, 1)),
     MatchRange(IAOf(1, 1), IAOf(2, 2)), MatchRange(IAOf(65535, 1), IAOf(65535, 1)),
     MatchAny, MatchIntf(1)}

TableClassRules ==
    {InternalClassRule("table", 1, s, d, <<TcpAny>>, 1) :
        s \in TableMatchRules, d \in TableMatchRules}

TableRuleLists == UNION {[1..n -> TableClassRules] : n \in 1..MaxTableRules}

TablePackets ==
    {[SrcIA |-> IAOf(1, 1), DstIA |-> d, IfID |-> i, L4Type |-> 6,
      HBHExt |-> <<>>, E2EExt |-> <<>>] : d \in {IAOf(1, 1), IAOf(3, 3)}, i \in {1, 2}}

InitTables == InitClass(TableRuleLists) /\ IdleQueue

NextTables == \E rp \in TablePackets : ClassifyFirst(rp)

SpecTables == InitTables /\ [][NextTables]_vars

(* One classification on an index of rules of every source and destination mode *)
InitIndex == InitClass(IndexRuleLists) /\ IdleQueue

NextIndex == \E rp \in IndexPackets : ClassifyFirst(rp)

SpecIndex == InitIndex /\ [][NextIndex]_vars

---------------------------------------------------------------------------
(* What the properties below are stated with *)

(* the rule references of the installed rules *)
Installed == 1..Len(Rules.RulesList)

Elements(list) == {list[i] : i \in 1..Len(list)} \ {NilRule}

(* the rules of the five lists of the last full match *)
Candidates ==
    Elements(full.lists.matched) \cup Elements(full.lists.sad)
    \cup Elements(full.lists.das) \cup Elements(full.lists.intf)
    \cup Elements(full.lists.lf)

(* the candidates the l4 filter of the last full match accepted *)
AcceptedCandidates ==
    {r \in Candidates : L4Accepts(Deref(Rules, r), full.rp.L4Type, cl.extensions)}

(* the extensions the packet itself carries *)
PacketExtensions(rp) ==
    {rp.HBHExt[i] : i \in 1..Len(rp.HBHExt)} \cup {rp.E2EExt[i] : i \in 1..Len(rp.E2EExt)}

(* one entry of the L4Type list matches the l4 type and the extensions *)
EntryAccepts(rule, l4t, exts) ==
    \E j \in 1..Len(rule.L4Type) :
        /\ rule.L4Type[j].baseProtocol = l4t
        /\ \/ rule.L4Type[j].extension = -1
           \/ \E e \in exts : /\ e.Class = rule.L4Type[j].baseProtocol
                              /\ e.Type = rule.L4Type[j].extension

(* mask is true exactly at the rules of list that EntryAccepts *)
MaskIsEntryAccepts(mask, list) ==
    \A i \in 1..LenToNil(list) :
        i <= Len(mask) =>
            (mask[i] <=> EntryAccepts(Deref(Rules, list[i]), full.rp.L4Type,
                                      PacketExtensions(full.rp)))

InRectangle(mr, ia) ==
    /\ mr.lowLim.I <= ia.I /\ ia.I <= mr.upLim.I
    /\ mr.lowLim.A <= ia.A /\ ia.A <= mr.upLim.A

(* the identifier ia satisfies the predicate mr *)
Satisfies(mr, ia) ==
    CASE mr.matchMode = EXACT -> ia = mr.IA
      [] mr.matchMode = ISDONLY -> ia.I = mr.IA.I
      [] mr.matchMode = ASONLY -> ia.A = mr.IA.A
      [] mr.matchMode = RANGE -> InRectangle(mr, ia)
      [] mr.matchMode = ANY -> TRUE
      [] OTHER -> FALSE

AddressModes == {EXACT, ISDONLY, ASONLY, RANGE}

(* every key of the exact tables, and every identifier a packet can carry *)
IndexedIAs == IndexIAs \cup {IAOf(65535, 1)} \cup DOMAIN Rules.SourceRules \cup DOMAIN Rules.DestinationRules

---------------------------------------------------------------------------
(* C1: every call of GetRuleForPacket, of the RegularClassRule and of the  *)
(* CachelessClassRule, returns a rule that is not nil and is an installed  *)
(* rule or the default rule.                                               *)
C1_ReturnsInstalledOrDefault ==
    calls > 0 =>
        /\ ~ret.panic /\ ret.rule \in Installed \cup {emptyRule}
        /\ ~full.panic /\ full.rule \in Installed \cup {emptyRule}

(* C2: a full match returns a rule whose priority is at least that of     *)
(* every rule of the five candidate lists that the l4 filter accepts,     *)
(* wherever the accepted rules stand in their lists.                      *)
C2_GreatestPriorityOfAccepted ==
    (calls > 0 /\ ~full.panic) =>
        \A r \in AcceptedCandidates :
            Deref(Rules, full.rule).Priority >= Deref(Rules, r).Priority

(* C3: the default rule is returned if and only if no installed rule      *)
(* matches the packet; a matching rule of any priority, zero and negative *)
(* included, keeps the default from being returned.                       *)
C3_DefaultIffNoMatch ==
    (calls > 0 /\ ~full.panic) =>
        (full.rule = emptyRule <=> AcceptedCandidates = {})

(* C4: the l4 filter accepts a rule if and only if one single entry of    *)
(* its L4Type list has the packet's l4 type and either extension -1 or an *)
(* extension the packet carries; an empty L4Type list is never accepted.  *)
C4_AcceptedIffOneEntryMatches ==
    (calls > 0 /\ ~full.panic) =>
        /\ MaskIsEntryAccepts(cl.maskMatched, full.lists.matched)
        /\ MaskIsEntryAccepts(cl.maskSad, full.lists.sad)
        /\ MaskIsEntryAccepts(cl.maskDas, full.lists.das)
        /\ MaskIsEntryAccepts(cl.maskIntf, full.lists.intf)
        /\ MaskIsEntryAccepts(cl.maskLf, full.lists.lf)

(* C5: for every sequence of packets the RegularClassRule returns for     *)
(* each packet the very rule the CachelessClassRule returns for it.       *)
C5_CachedEqualsCacheless ==
    (calls > 0 /\ ~ret.panic /\ ~full.panic) => ret.rule = full.rule

(* C6: when a packet is classified twice in a row by the RegularClassRule *)
(* the second call returns the rule the first call returned.              *)
C6_SameTwiceInARow ==
    (ret.prev = ret.rp /\ ret.prevRule # NilRule) =>
        (~ret.panic /\ ret.rule = ret.prevRule)

(* the second call was answered from the cache with an installed rule *)
C6_Witness ==
    /\ ret.prev = ret.rp /\ ret.prevRule # NilRule
    /\ ret.hit /\ ret.rule \in Installed

(* C7: RulesToMap puts a rule with a Range source (destination) whose low *)
(* limit is at most its high limit into SourceRules (DestinationRules)    *)
(* under every identifier of the rectangle and under no other identifier. *)
C7_RangeIndexedOnRectangle ==
    \A k \in Installed :
        /\ (/\ Rules.RulesList[k].SourceAs.matchMode = RANGE
            /\ Rules.RulesList[k].SourceAs.lowLim.I <= Rules.RulesList[k].SourceAs.upLim.I
            /\ Rules.RulesList[k].SourceAs.lowLim.A <= Rules.RulesList[k].SourceAs.upLim.A)
           => /\ ~Rules.diverges
              /\ \A ia \in IndexedIAs :
                     k \in Elements(Lookup(Rules.SourceRules, ia))
                         <=> InRectangle(Rules.RulesList[k].SourceAs, ia)
        /\ (/\ Rules.RulesList[k].DestinationAs.matchMode = RANGE
            /\ Rules.RulesList[k].DestinationAs.lowLim.I
                   <= Rules.RulesList[k].DestinationAs.upLim.I
            /\ Rules.RulesList[k].DestinationAs.lowLim.A
                   <= Rules.RulesList[k].DestinationAs.upLim.A)
           => /\ ~Rules.diverges
              /\ \A ia \in IndexedIAs :
                     k \in Elements(Lookup(Rules.DestinationRules, ia))
                         <=> InRectangle(Rules.RulesList[k].DestinationAs, ia)

(* C8: a rule whose source and destination are Exact, IsdOnly, AsOnly or  *)
(* Range is in the result of intersectListsRules for a packet if and only *)
(* if the packet's source satisfies the source predicate and the packet's *)
(* destination satisfies the destination predicate.                       *)
C8_IntersectionIffBothMatch ==
    calls > 0 =>
        \A k \in Installed :
            (/\ Rules.RulesList[k].SourceAs.matchMode \in AddressModes
             /\ Rules.RulesList[k].DestinationAs.matchMode \in AddressModes)
            => (k \in Elements(full.lists.matched)
                   <=> /\ Satisfies(Rules.RulesList[k].SourceAs, full.rp.SrcIA)
                       /\ Satisfies(Rules.RulesList[k].DestinationAs, full.rp.DstIA))

(* C9: a rule with source Any and a destination that is Exact, IsdOnly,   *)
(* AsOnly or Range is a candidate for every packet whose destination      *)
(* satisfies the destination predicate; likewise with source and          *)
(* destination exchanged.                                                 *)
C9_AnyMatchesEveryIdentifier ==
    calls > 0 =>
        \A k \in Installed :
            /\ (/\ Rules.RulesList[k].SourceAs.matchMode = ANY
                /\ Rules.RulesList[k].DestinationAs.matchMode \in AddressModes
                /\ Satisfies(Rules.RulesList[k].DestinationAs, full.rp.DstIA))
               => k \in Candidates
            /\ (/\ Rules.RulesList[k].DestinationAs.matchMode = ANY
                /\ Rules.RulesList[k].SourceAs.matchMode \in AddressModes
                /\ Satisfies(Rules.RulesList[k].SourceAs, full.rp.SrcIA))
               => k \in Candidates

(* C10: the length of the queue is never negative and never more than     *)
(* GetCapacity(), whatever the interleaving of the workers and of Pop.    *)
C10_LengthWithinCapacity ==
    0 <= GetLength(queue) /\ GetLength(queue) <= GetCapacity(pktQue)

(* C11: in both queue variants CheckAction returns DROPNOTIFY, and nothing *)
(* else, whenever the length is at least MaxLength, whatever the profile  *)
(* and the sample.                                                        *)
C11_FullQueueDropNotify ==
    /\ GetLength(queue) >= pktQue.MaxLength
          => CheckAction(pktQue, queue) = {DROPNOTIFY}
    /\ BufGetLength(bufQueue) >= pktQue.MaxLength
          => BufCheckAction(pktQue, bufQueue) = {DROPNOTIFY}

(* C12: the packets come out in the order their Enqueue calls returned,   *)
(* each once, and none is lost: the packets popped so far followed by the *)
(* packets in the queue are the packets enqueued so far, in that order.   *)
C12_FifoNoLossNoDuplicate ==
    popped # PopPanic => fifo.enq = fifo.out \o queue \o bufQueue

(* C13: no Enqueue of a worker that got PASS from CheckAction ever waits: *)
(* whenever a worker is about to send, the channel has a free slot.       *)
C13_EnqueueNeverBlocks ==
    \A w \in DOMAIN workers :
        workers[w].pc = "enqueue" => GetLength(queue) < ChanCap(pktQue)

(* C14: every Pop step of either variant on an empty queue returns no     *)
(* packet, does not fail and leaves the queue empty; every Pop step on a  *)
(* non-empty queue returns the front packet and shortens the queue by one.*)
C14_PopContract ==
    [][ /\ Pop => IF queue = <<>>
                  THEN popped' = NoPkt /\ queue' = <<>>
                  ELSE popped' = Head(queue) /\ GetLength(queue') = GetLength(queue) - 1
        /\ BufPop => IF bufQueue = <<>>
                     THEN popped' = NoPkt /\ bufQueue' = <<>>
                     ELSE /\ popped' = Head(bufQueue)
                          /\ BufGetLength(bufQueue') = BufGetLength(bufQueue) - 1 ]_vars

(* the fill percent of the queue contract: 100 * length / capacity *)
FillPercent(pq, q) == (100 * Len(q)) \div pq.MaxLength

(* the results the profile scan may give from entry j downward: an entry  *)
(* above the fill percent or with Prob 0 never fires, a reached entry     *)
(* with Prob 100 always fires, any other reached entry may fire or not    *)
RECURSIVE ScanResults(_, _, _)
ScanResults(profile, percent, j) ==
    IF j = 0 THEN {PASS}
    ELSE IF percent < profile[j].FillLevel \/ profile[j].Prob <= 0
    THEN ScanResults(profile, percent, j - 1)
    ELSE IF profile[j].Prob >= RandN
    THEN {profile[j].Action}
    ELSE {profile[j].Action} \cup ScanResults(profile, percent, j - 1)

(* C15: every CheckAction step of either variant on a queue with          *)
(* length < MaxLength returns the action of the first entry, from the     *)
(* last one downward, that the fill percent reaches and whose sample      *)
(* fires, and PASS when no entry fires.                                   *)
C15_ProfileScanFromTop ==
    [][\A w \in DOMAIN workers :
          /\ (WorkerCheckLevel(w) /\ GetLength(queue) < pktQue.MaxLength)
                => workers'[w].action \in
                     ScanResults(pktQue.Profile, FillPercent(pktQue, queue),
                                 Len(pktQue.Profile))
          /\ (BufWorkerCheckAction(w) /\ BufGetLength(bufQueue) < pktQue.MaxLength)
                => workers'[w].action \in
                     ScanResults(pktQue.Profile, FillPercent(pktQue, bufQueue),
                                 Len(pktQue.Profile))]_vars

(* the Stores on the entry of caller c that took effect before its Load *)
StoresSeen(c) ==
    {i \in 1..callers[c].at : cacheLog.stores[i].entry = callers[c].entry}

(* C16: a Get called after a Put on the same entry has returned gets the  *)
(* rule of that Put or of a later Put on the entry and never nil; the     *)
(* rule a Get gets was put under exactly its entry; a Get gets nil only   *)
(* if no Put on its entry has taken effect.                               *)
C16_GetAfterPut ==
    \A c \in DOMAIN callers :
        callers[c].pc = "loaded" =>
            /\ callers[c].floor > 0 =>
                  /\ callers[c].r # NilRule
                  /\ \E i \in StoresSeen(c) :
                        i >= callers[c].floor /\ cacheLog.stores[i].rule = callers[c].r
            /\ callers[c].r # NilRule =>
                  \E i \in StoresSeen(c) : cacheLog.stores[i].rule = callers[c].r
            /\ callers[c].r = NilRule => StoresSeen(c) = {}

(* a Get called after a returned Put on its entry got the rule of a later *)
(* Put on that entry, a rule other than the one of the returned Put       *)
C16_Witness ==
    \E c \in DOMAIN callers :
        /\ callers[c].pc = "loaded"
        /\ callers[c].floor > 0
        /\ callers[c].r # cacheLog.stores[callers[c].floor].rule
        /\ \E i \in StoresSeen(c) : i > callers[c].floor

SeqRange(q) == {q[i] : i \in DOMAIN q}

(* the packet has been put on a queue: it is on one or was popped from one *)
Enqueued(pkt) == pkt \in SeqRange(queue) \cup SeqRange(bufQueue) \cup SeqRange(fifo.out)

(* C17: a packet whose process call has returned is on (or was popped     *)
(* from) the selected queue exactly if Police and CheckAction both        *)
(* returned PASS for it; a non-PASS action of Police or CheckAction is    *)
(* the result, the later steps are skipped and the packet is on no queue. *)
C17_EnqueuedIffBothPass ==
    \A w \in DOMAIN workers :
        (workers[w].pc = "idle" /\ workers[w].pkt # NoPkt) =>
            /\ Enqueued(workers[w].pkt)
                  <=> (workers[w].police = PASS /\ workers[w].check = PASS)
            /\ workers[w].police # PASS =>
                  workers[w].action = workers[w].police /\ workers[w].check = Skipped
            /\ (workers[w].police = PASS /\ workers[w].check # PASS) =>
                  workers[w].action = workers[w].check

(* the field does not parse under its mode code *)
FailsToParse(mode, field) ==
    \/ mode \notin {EXACT, ISDONLY, ASONLY, RANGE, ANY, INTF}
    \/ mode \in {EXACT, ISDONLY, ASONLY, ANY} /\ ~(Len(field) = 1 /\ field[1][1] = "ia")
    \/ mode = RANGE /\ ~(Len(field) = 2 /\ field[1][1] = "ia" /\ field[2][1] = "ia")
    \/ mode = INTF /\ ~(Len(field) = 1 /\ field[1][1] = "int")

(* C18: when the source or the destination field of the rule fails to     *)
(* parse under its mode code, or a mode code is outside 0..5,             *)
(* ConvClassRuleToInternal returns an error and no usable rule.           *)
C18_ParseFailureIsError ==
    (/\ conv.done
     /\ \/ FailsToParse(extRule.SourceMatchMode, extRule.SourceAs)
        \/ FailsToParse(extRule.DestinationMatchMode, extRule.DestinationAs))
    => (conv.err /\ conv.rule = ZeroClassRule)

(* the field is a Range whose lower limit exceeds the upper one in ISD or AS *)
DegenerateRange(mode, field) ==
    /\ mode = RANGE
    /\ Len(field) = 2 /\ field[1][1] = "ia" /\ field[2][1] = "ia"
    /\ field[1][2] > field[2][2] \/ field[1][3] > field[2][3]

(* C19: a rule with a degenerate Range predicate as source or destination *)
(* is rejected by the conversion or by the building of the index: it is   *)
(* never in the rule list of the index.                                   *)
C19_DegenerateRangeRejected ==
    (\/ DegenerateRange(extRule.SourceMatchMode, extRule.SourceAs)
     \/ DegenerateRange(extRule.DestinationMatchMode, extRule.DestinationAs))
    => Rules.RulesList = <<>>

(* C20: GetRuleForPacket is total: no call of either classifier ends in   *)
(* an index out of range, whatever the number of rules given to Init and  *)
(* the number of rules matching the packet.                               *)
C20_GetRuleForPacketTotal == ~ret.panic /\ ~full.panic

(* a classifier whose scratch holds nothing: no zero entries, no          *)
(* extensions of earlier packets                                          *)
OwnExtensionsOnly == [ClassRuleInit(Len(Rules.RulesList)) EXCEPT !.extensions = EmptyBag]

(* C21: the rule the CachelessClassRule instance returns for a packet is  *)
(* the rule the full match gives on the packet's own extensions alone:    *)
(* neither the extensions of the packets the instance classified before   *)
(* nor the 255 zero entries of the scratch change it.                     *)
C21_HistoryIndependent ==
    (calls > 0 /\ ~full.panic) =>
        \E r \in {CachelessGetRuleForPacket(Rules, OwnExtensionsOnly, full.rp)} :
            ~r.panic /\ r.rule = full.rule

(* C22: every entry of the cache holds an installed rule or the default   *)
(* rule, and that rule is the result of a full match of a packet whose    *)
(* source, destination, interface and protocol are exactly the entry's,   *)
(* however the workers' Gets and Puts interleave.                         *)
C22_CacheHoldsFullMatchResults ==
    \A k \in DOMAIN CrCache :
        /\ CrCache[k] \in Installed \cup {emptyRule}
        /\ \E o \in cacheLog.outputs :
              /\ o.rule = CrCache[k]
              /\ k.srcAddress = o.rp.SrcIA /\ k.dstAddress = o.rp.DstIA
              /\ k.intf = Uint64(o.rp.IfID) /\ k.l4type = o.rp.L4Type

(* two workers missed on the same entry and put different rules for it *)
C22_Witness ==
    \E v \in DOMAIN callers, w \in DOMAIN callers :
        /\ v # w
        /\ callers[v].pc = "idle" /\ callers[w].pc = "idle"
        /\ callers[v].rp # NoPacket /\ callers[w].rp # NoPacket
        /\ ~callers[v].hit /\ ~callers[w].hit
        /\ callers[v].cached = NilRule /\ callers[w].cached = NilRule
        /\ cacheEntry(callers[v].rp) = cacheEntry(callers[w].rp)
        /\ callers[v].rule # callers[w].rule
        /\ cacheEntry(callers[w].rp) \in DOMAIN CrCache

(* how often the reference k is in the cell *)
RECURSIVE Occurrences(_, _)
Occurrences(k, cell) ==
    IF cell = <<>> THEN 0
    ELSE (IF Head(cell) = k THEN 1 ELSE 0) + Occurrences(k, Tail(cell))

Once(cond) == IF cond THEN 1 ELSE 0

(* the references of the cell are in rule-list order, none twice *)
InListOrder(cell) == \A i \in 1..Len(cell), j \in 1..Len(cell) : i < j => cell[i] < cell[j]

(* the keys of the tables: identifiers, ISD or AS numbers, and interfaces *)
TableIAs ==
    {IAOf(i, a) : i \in 0..3, a \in 0..3} \cup {IAOf(65535, 1)}
    \cup DOMAIN Rules.SourceRules \cup DOMAIN Rules.DestinationRules
    \cup DOMAIN Rules.SourceAnyDestinationRules \cup DOMAIN Rules.DestinationAnySourceRules

TableNumbers ==
    0..3 \cup DOMAIN Rules.ASOnlySourceRules \cup DOMAIN Rules.ASOnlyDestRules
    \cup DOMAIN Rules.ISDOnlySourceRules \cup DOMAIN Rules.ISDOnlyDestRules

TableInterfaces == {Uint64(n) : n \in 0..3} \cup DOMAIN Rules.InterfaceIncomingRules

(* the source-side tables hold rule k, of source s and destination d,    *)
(* once in each cell its source mode names and in no other cell           *)
SourcePlaced(k, s, d) ==
    /\ \A ia \in TableIAs :
          /\ Occurrences(k, Lookup(Rules.SourceRules, ia))
                = Once(\/ s.matchMode = EXACT /\ s.IA = ia
                       \/ s.matchMode = RANGE /\ InRectangle(s, ia))
          /\ Occurrences(k, Lookup(Rules.DestinationAnySourceRules, ia))
                = Once(s.matchMode = ANY /\ d.matchMode # ANY /\ d.IA = ia)
    /\ \A n \in TableNumbers :
          /\ Occurrences(k, Lookup(Rules.ASOnlySourceRules, n))
                = Once(s.matchMode = ASONLY /\ s.IA.A = n)
          /\ Occurrences(k, Lookup(Rules.ISDOnlySourceRules, n))
                = Once(s.matchMode = ISDONLY /\ s.IA.I = n)
    /\ \A n \in TableInterfaces :
          Occurrences(k, Lookup(Rules.InterfaceIncomingRules, n))
                = Once(s.matchMode = INTF /\ s.intf = n)
    /\ Occurrences(k, Rules.L4OnlyRules) = Once(s.matchMode = ANY /\ d.matchMode = ANY)

(* the same for the destination-side tables; a destination of mode Intf  *)
(* is in none of them                                                     *)
DestinationPlaced(k, s, d) ==
    /\ \A ia \in TableIAs :
          /\ Occurrences(k, Lookup(Rules.DestinationRules, ia))
                = Once(\/ d.matchMode = EXACT /\ d.IA = ia
                       \/ d.matchMode = RANGE /\ InRectangle(d, ia))
          /\ Occurrences(k, Lookup(Rules.SourceAnyDestinationRules, ia))
                = Once(d.matchMode = ANY /\ s.matchMode # ANY /\ s.IA = ia)
    /\ \A n \in TableNumbers :
          /\ Occurrences(k, Lookup(Rules.ASOnlyDestRules, n))
                = Once(d.matchMode = ASONLY /\ d.IA.A = n)
          /\ Occurrences(k, Lookup(Rules.ISDOnlyDestRules, n))
                = Once(d.matchMode = ISDONLY /\ d.IA.I = n)

CellsInListOrder ==
    /\ \A ia \in TableIAs :
          /\ InListOrder(Lookup(Rules.SourceRules, ia))
          /\ InListOrder(Lookup(Rules.DestinationRules, ia))
          /\ InListOrder(Lookup(Rules.SourceAnyDestinationRules, ia))
          /\ InListOrder(Lookup(Rules.DestinationAnySourceRules, ia))
    /\ \A n \in TableNumbers :
          /\ InListOrder(Lookup(Rules.ASOnlySourceRules, n))
          /\ InListOrder(Lookup(Rules.ASOnlyDestRules, n))
          /\ InListOrder(Lookup(Rules.ISDOnlySourceRules, n))
          /\ InListOrder(Lookup(Rules.ISDOnlyDestRules, n))
    /\ \A n \in TableInterfaces :
          InListOrder(Lookup(Rules.InterfaceIncomingRules, n))
    /\ InListOrder(Rules.L4OnlyRules)

(* C23: RulesToMap returns an index in which every rule is once in each  *)
(* cell of the tables its source and destination modes name and in no    *)
(* other cell, every cell is in rule-list order, a rule with source Any  *)
(* and destination Any is in L4OnlyRules alone, and a destination of     *)
(* mode Intf is in no destination-side table.                            *)
C23_PlacedByModes ==
    /\ ~Rules.diverges
    /\ CellsInListOrder
    /\ \A k \in Installed :
          /\ SourcePlaced(k, Rules.RulesList[k].SourceAs, Rules.RulesList[k].DestinationAs)
          /\ DestinationPlaced(k, Rules.RulesList[k].SourceAs, Rules.RulesList[k].DestinationAs)

(* the cache entries other than entry are the same in both caches *)
SameButFor(old, new, entry) ==
    /\ DOMAIN new \ {entry} = DOMAIN old \ {entry}
    /\ \A k \in DOMAIN old \ {entry} : new[k] = old[k]

(* C24: a classification by both classifier variants leaves the index,   *)
(* its tables and its rules, as it was; the RegularClassRule changes at   *)
(* most the cache entry of the packet's key, and nothing of the cache     *)
(* when it returns the cached rule; the CachelessClassRule, which runs in *)
(* the same step, writes no cache entry.                                  *)
C24_IndexReadOnly ==
    [][calls' = calls + 1 =>
          /\ Rules' = Rules
          /\ IF ret.panic \/ ret'.panic \/ ret'.hit
             THEN CrCache' = CrCache
             ELSE /\ SameButFor(CrCache, CrCache', cacheEntry(ret'.rp))
                  /\ CrCache'[cacheEntry(ret'.rp)] = ret'.rule]_vars

(* a later call made a full match and put its rule into the cache, which *)
(* holds the entry of another key as well                                 *)
C24_Witness ==
    /\ calls > 1 /\ ~ret.panic /\ ~ret.hit
    /\ Installed # {}
    /\ DOMAIN CrCache \ {cacheEntry(ret.rp)} # {}
    /\ cacheEntry(ret.rp) \in DOMAIN CrCache


(* C25: every receive of the channel PopMultiple takes the oldest packet  *)
(* of a non-empty channel, and every PopMultiple(number) of the ring      *)
(* queue happens with at least number packets queued, returns the number  *)
(* oldest of them in enqueue order and removes exactly those.             *)
C25_PopMultipleContract ==
    [][ /\ PopMultipleReceive =>
              /\ queue # <<>>
              /\ multi'.pkts = Append(multi.pkts, Head(queue))
              /\ queue' = Tail(queue)
        /\ \A number \in 1..MaxPop :
              BufPopMultiple(number) =>
                  /\ BufGetLength(bufQueue) >= number
                  /\ popped' # PopPanic
                  /\ multi'.pkts = SubSeq(bufQueue, 1, number)
                  /\ bufQueue' = SubSeq(bufQueue, number + 1, Len(bufQueue)) ]_vars

(* C26: a rule whose destination has mode Intf is a configuration error:  *)
(* the conversion or the building of the index rejects it, so no rule of  *)
(* the index has a destination of mode Intf.                              *)
C26_IntfDestinationRejected ==
    /\ (conv.done /\ extRule.DestinationMatchMode = INTF) => conv.err
    /\ \A k \in DOMAIN Rules.RulesList :
          Rules.RulesList[k].DestinationAs.matchMode # INTF

(* the rule k has a source of mode Intf and a destination that is matched *)
(* on the packet's destination identifier                                 *)
IntfToAddress(k) ==
    /\ k \in Installed
    /\ Rules.RulesList[k].SourceAs.matchMode = INTF
    /\ Rules.RulesList[k].DestinationAs.matchMode \in AddressModes \cup {ANY}

(* the packet rp came in on the interface of rule k and goes to a         *)
(* destination that the destination predicate of rule k accepts           *)
IntfAndDestination(k, rp) ==
    /\ Uint64(rp.IfID) = Rules.RulesList[k].SourceAs.intf
    /\ Satisfies(Rules.RulesList[k].DestinationAs, rp.DstIA)

(* C27: a rule with a source of mode Intf is returned by either           *)
(* classifier only for a packet that came in on the rule's interface and  *)
(* whose destination satisfies the rule's destination predicate.          *)
C27_IntfRuleChecksDestination ==
    calls > 0 =>
        /\ (~ret.panic /\ IntfToAddress(ret.rule)) => IntfAndDestination(ret.rule, ret.rp)
        /\ (~full.panic /\ IntfToAddress(full.rule)) => IntfAndDestination(full.rule, full.rp)

(* a predicate that is not a Range, or a Range with low <= high in ISD and AS *)
OrderedRange(mr) ==
    mr.matchMode = RANGE =>
        /\ mr.lowLim.I <= mr.upLim.I
        /\ mr.lowLim.A <= mr.upLim.A

(* C28: RulesToMap terminates for every rule list whose Range predicates  *)
(* have low <= high, the ranges that end at the largest ISD included.     *)
C28_RulesToMapTerminates ==
    (\A k \in Installed :
        /\ OrderedRange(Rules.RulesList[k].SourceAs)
        /\ OrderedRange(Rules.RulesList[k].DestinationAs))
    => ~Rules.diverges

(* the cache after the Put calls of the log stores, in their order *)
RECURSIVE CacheAfter(_, _)
CacheAfter(cache, stores) ==
    IF stores = <<>> THEN cache
    ELSE CacheAfter(CachePut(cache, Head(stores).entry, Head(stores).rule), Tail(stores))

(* C29: after Init(maxEntries) the cache never holds more than maxEntries *)
(* entries, whatever Put calls with distinct keys have been made.         *)
C29_AtMostMaxEntries ==
    \A maxEntries \in CacheSizes :
        Cardinality(DOMAIN CacheAfter(CacheInit(maxEntries), cacheLog.stores)) <= maxEntries
===========================================================================
